---- MODULE Spec2Model ----
(***************************************************************************)
(* Model of the static type checker of interp/typecheck.go: the untyped    *)
(* constant coercion engine (convertUntyped, representable, convertConst,  *)
(* representableConst) and the expression checkers built on it            *)
(* (assignExpr, addressExpr, shift, comparison, binaryExpr).               *)
(*                                                                         *)
(* Arbitrary-precision constants (go/constant) are modelled exactly: an    *)
(* integer magnitude is a little-endian sequence of bits whose last        *)
(* element is 1 (the empty sequence is zero), so 64-bit boundaries and     *)
(* float32/float64 overflow thresholds are represented without overflow.   *)
(***************************************************************************)
EXTENDS Integers, Sequences, FiniteSets, TLC

VARIABLES call, pc, n, c0, c1, typ, tree, cur, found, ret

vars == <<call, pc, n, c0, c1, typ, tree, cur, found, ret>>

(***************************************************************************)
(* Bounds of the model.                                                    *)
(***************************************************************************)
\* integers are drawn at distance <= BoundaryOffset from every power of two
BoundaryOffset == 2
\* nleft and nright of an assignment node range over 1..MaxArity
MaxArity == 2
\* longest chain of nodes below the operand of an address expression
MaxDepth == 3

(***************************************************************************)
(* Bit-sequence arithmetic (math/big behind go/constant).                  *)
(***************************************************************************)
Zeros(k) == [i \in 1..k |-> 0]

Ones(k) == [i \in 1..k |-> 1]

Pow2(k) == [i \in 1..(k + 1) |-> IF i = k + 1 THEN 1 ELSE 0]

\* strip the high zero bits
Normalize(bits) ==
  LET hi == IF \E i \in 1..Len(bits) : bits[i] = 1
            THEN CHOOSE i \in 1..Len(bits) :
                   bits[i] = 1 /\ \A j \in (i + 1)..Len(bits) : bits[j] = 0
            ELSE 0
  IN SubSeq(bits, 1, hi)

\* mag + 1
Inc(mag) ==
  IF \A i \in 1..Len(mag) : mag[i] = 1
  THEN Pow2(Len(mag))
  ELSE LET j == CHOOSE i \in 1..Len(mag) :
                  mag[i] = 0 /\ \A k \in 1..(i - 1) : mag[k] = 1
       IN [i \in 1..Len(mag) |-> IF i < j THEN 0 ELSE IF i = j THEN 1 ELSE mag[i]]

\* mag - 1, for mag > 0
Dec(mag) ==
  LET j == CHOOSE i \in 1..Len(mag) :
             mag[i] = 1 /\ \A k \in 1..(i - 1) : mag[k] = 0
  IN Normalize([i \in 1..Len(mag) |->
                  IF i < j THEN 1 ELSE IF i = j THEN 0 ELSE mag[i]])

\* mag1 < mag2 on normalized magnitudes
MagLess(a, b) ==
  \/ Len(a) < Len(b)
  \/ /\ Len(a) = Len(b)
     /\ \E i \in 1..Len(a) :
          a[i] < b[i] /\ \A j \in (i + 1)..Len(a) : a[j] = b[j]

\* the bits of a small natural number
FromNat(v) ==
  LET len == CHOOSE k \in 0..30 : 2 ^ k > v /\ (k = 0 \/ 2 ^ (k - 1) <= v)
  IN [i \in 1..len |-> (v \div (2 ^ (i - 1))) % 2]

RECURSIVE AddSmall(_, _)
\* mag + d for a small integer d (mag + d >= 0)
AddSmall(mag, d) ==
  IF d = 0 THEN mag
  ELSE IF d > 0 THEN AddSmall(Inc(mag), d - 1)
  ELSE AddSmall(Dec(mag), d + 1)

(***************************************************************************)
(* Exact real numbers: sign * (mag + frac/2), frac in {0, 1}.              *)
(***************************************************************************)
Real(neg, mag, frac) ==
  [neg |-> neg /\ (mag # <<>> \/ frac # 0), mag |-> mag, frac |-> frac]

RZero == Real(FALSE, <<>>, 0)

RIsZero(r) == r.mag = <<>> /\ r.frac = 0

RIsInt(r) == r.frac = 0

\* r1 <= r2 on integral reals
IntLeq(a, b) ==
  IF a.neg /\ ~b.neg THEN TRUE
  ELSE IF ~a.neg /\ b.neg THEN FALSE
  ELSE IF ~a.neg THEN a.mag = b.mag \/ MagLess(a.mag, b.mag)
  ELSE a.mag = b.mag \/ MagLess(b.mag, a.mag)

(***************************************************************************)
(* Type descriptors (itype): a category and the untyped flag.  The untyped *)
(* kinds are bool, int, int32 (rune), float64, complex128, string and nil. *)
(***************************************************************************)
T(cat) == [cat |-> cat, untyped |-> FALSE]

U(cat) == [cat |-> cat, untyped |-> TRUE]

\* a nil *itype
NoType == [cat |-> "none", untyped |-> FALSE]

SignedKinds == {"int", "int8", "int16", "int32", "int64"}

UnsignedKinds == {"uint", "uint8", "uint16", "uint32", "uint64", "uintptr"}

FloatKinds == {"float32", "float64"}

ComplexKinds == {"complex64", "complex128"}

\* reflect.Kind in declaration order (the ordinal is the position minus 1)
ReflectKinds ==
  <<"invalid", "bool", "int", "int8", "int16", "int32", "int64", "uint",
    "uint8", "uint16", "uint32", "uint64", "uintptr", "float32", "float64",
    "complex64", "complex128", "array", "chan", "func", "interface", "map",
    "ptr", "slice", "string", "struct", "unsafepointer">>

KindOrd(k) == CHOOSE i \in 1..Len(ReflectKinds) : ReflectKinds[i] = k

\* t.TypeOf().Kind(): the kind of the backing type; the nil type is backed by
\* an interface type
Kind(t) == IF t.cat = "nil" THEN "interface" ELSE t.cat

isInt(k) == k \in SignedKinds \cup UnsignedKinds

isFloat(k) == k \in FloatKinds

isComplex(k) == k \in ComplexKinds

isNumber(k) == isInt(k) \/ isFloat(k) \/ isComplex(k)

isString(k) == k = "string"

isBoolean(k) == k = "bool"

isInterface(t) == t.cat = "interface"

isArray(t) == t.cat = "array"

isMap(t) == t.cat = "map"

isChan(t) == t.cat = "chan"

isFunc(t) == t.cat = "func"

isPtr(t) == t.cat = "ptr"

isNil(t) == t.cat = "nil"

\* the category admits the nil value
hasNil(t) == t.cat \in {"ptr", "array", "map", "chan", "func", "interface"}

\* an untyped value has an empty method set
methods(t) == {}

defaultType(t) ==
  IF ~t.untyped THEN t
  ELSE IF t.cat = "int32" THEN T("int")
  ELSE T(t.cat)

equals(t, o) == t = o

comparable(t) ==
  t.cat \notin {"nil", "array", "map", "func", "none"}

ordered(t) ==
  \/ isNumber(Kind(t)) /\ ~isComplex(Kind(t))
  \/ isString(Kind(t))

(***************************************************************************)
(* Values (reflect.Value): invalid, a constant.Value, or a native value of *)
(* some reflect kind.                                                      *)
(***************************************************************************)
Val(tag, kind, re, im, b, s) ==
  [tag |-> tag, kind |-> kind, re |-> re, im |-> im, b |-> b, s |-> s]

Invalid == Val("invalid", "Invalid", RZero, RZero, FALSE, "")

Unknown == Val("const", "Unknown", RZero, RZero, FALSE, "")

MakeInt(r) == Val("const", "Int", r, RZero, FALSE, "")

MakeFloat(r) == Val("const", "Float", r, RZero, FALSE, "")

MakeComplex(re, im) == Val("const", "Complex", re, im, FALSE, "")

MakeBool(b) == Val("const", "Bool", RZero, RZero, b, "")

MakeString(s) == Val("const", "String", RZero, RZero, FALSE, s)

Native(kind, re, im, b, s) == Val("native", kind, re, im, b, s)

\* v.IsValid()
IsValid(v) == v.tag # "invalid"

\* v.Interface().(constant.Value) succeeds
IsConst(v) == v.tag = "const"

(***************************************************************************)
(* go/constant.                                                            *)
(***************************************************************************)
ToInt(c) ==
  CASE c.kind = "Int" -> c
    [] c.kind = "Float" -> IF RIsInt(c.re) THEN MakeInt(c.re) ELSE Unknown
    [] c.kind = "Complex" ->
         IF RIsZero(c.im) /\ RIsInt(c.re) THEN MakeInt(c.re) ELSE Unknown
    [] OTHER -> Unknown

ToFloat(c) ==
  CASE c.kind = "Int" -> MakeFloat(c.re)
    [] c.kind = "Float" -> c
    [] c.kind = "Complex" -> IF RIsZero(c.im) THEN MakeFloat(c.re) ELSE Unknown
    [] OTHER -> Unknown

ToComplex(c) ==
  CASE c.kind \in {"Int", "Float"} -> MakeComplex(c.re, RZero)
    [] c.kind = "Complex" -> c
    [] OTHER -> Unknown

\* constant.Real, constant.Imag (as reals)
RealPart(c) == IF c.kind \in {"Int", "Float", "Complex"} THEN c.re ELSE RZero

ImagPart(c) == IF c.kind = "Complex" THEN c.im ELSE RZero

\* constant.Sign
Sign(c) ==
  CASE c.kind \in {"Int", "Float"} ->
         IF RIsZero(c.re) THEN 0 ELSE IF c.re.neg THEN -1 ELSE 1
    [] c.kind = "Complex" ->
         IF RIsZero(c.re) /\ RIsZero(c.im) THEN 0 ELSE 1
    [] c.kind = "Unknown" -> 1

\* constant.BitLen: the bits needed for the absolute value
BitLen(x) == Len(x.re.mag)

\* the ok result of constant.Int64Val: x is in [-2^63, 2^63 - 1]
Int64Ok(x) ==
  /\ x.kind = "Int"
  /\ \/ Len(x.re.mag) <= 63
     \/ x.re.neg /\ x.re.mag = Pow2(63)

\* the ok result of constant.Uint64Val: x is in [0, 2^64 - 1]
Uint64Ok(x) ==
  /\ x.kind = "Int"
  /\ ~x.re.neg
  /\ Len(x.re.mag) <= 64

\* round a real to a float of prec mantissa bits, to nearest, ties to even
RoundMant(r, prec) ==
  LET L == Len(r.mag)
      exact == IF r.frac = 0 THEN L <= prec ELSE L + 1 <= prec
      shift == L - prec
      guard == IF shift = 0 THEN r.frac ELSE r.mag[shift]
      sticky ==
        IF shift = 0 THEN FALSE
        ELSE r.frac = 1 \/ \E i \in 1..(shift - 1) : r.mag[i] = 1
      kept == SubSeq(r.mag, shift + 1, L)
      up == guard = 1 /\ (sticky \/ kept[1] = 1)
  IN IF exact THEN r
     ELSE Real(r.neg, Zeros(shift) \o (IF up THEN Inc(kept) ELSE kept), 0)

\* constant.Float32Val / Float64Val: the rounded value, inf when the rounded
\* magnitude reaches 2^maxexp
FloatOf(r, maxexp) == [inf |-> Len(r.mag) > maxexp, val |-> r]

FloatVal(x, prec, maxexp) ==
  FloatOf(RoundMant(IF x.kind \in {"Int", "Float"} THEN x.re ELSE RZero, prec),
          maxexp)

Float32Val(x) == FloatVal(x, 24, 128)

Float64Val(x) == FloatVal(x, 53, 1024)

(***************************************************************************)
(* reflect's conversion of a 64-bit integer to an integer type of width w: *)
(* the low w bits, in two's complement.                                    *)
(***************************************************************************)
TwosLow(r, w) ==
  IF ~r.neg
  THEN [i \in 1..w |-> IF i <= Len(r.mag) THEN r.mag[i] ELSE 0]
  ELSE LET m == Dec(r.mag)
       IN [i \in 1..w |-> IF i <= Len(m) THEN 1 - m[i] ELSE 1]

FromTwos(bits, signed) ==
  IF signed /\ bits[Len(bits)] = 1
  THEN Real(TRUE, Inc(Normalize([i \in 1..Len(bits) |-> 1 - bits[i]])), 0)
  ELSE Real(FALSE, Normalize(bits), 0)

(***************************************************************************)
(* Diagnostics: the kind of error and the types its message names.         *)
(***************************************************************************)
Err(e, args) == [err |-> e, args |-> args]

Nil == Err("nil", <<>>)

(***************************************************************************)
(* Representability and narrowing of constants.                            *)
(***************************************************************************)
bitlen ==
  [k \in SignedKinds \cup UnsignedKinds |->
     CASE k \in {"int8", "uint8"} -> 8
       [] k \in {"int16", "uint16"} -> 16
       [] k \in {"int32", "uint32"} -> 32
       [] OTHER -> 64]

representableConst(c, k) ==
  IF isInt(k) THEN
    LET x == ToInt(c)
    IN IF x.kind # "Int" THEN FALSE
       ELSE IF k \in SignedKinds /\ ~Int64Ok(x) THEN FALSE
       ELSE IF k \in UnsignedKinds /\ ~Uint64Ok(x) THEN FALSE
       ELSE BitLen(x) <= bitlen[k]
  ELSE IF isFloat(k) THEN
    LET x == ToFloat(c)
    IN IF x.kind # "Float" THEN FALSE
       ELSE IF k = "float32" THEN ~Float32Val(x).inf
       ELSE ~Float64Val(x).inf
  ELSE IF isComplex(k) THEN
    LET x == ToComplex(c)
    IN IF x.kind # "Complex" THEN FALSE
       ELSE IF k = "complex64"
       THEN ~Float32Val(MakeFloat(RealPart(x))).inf
            /\ ~Float32Val(MakeFloat(ImagPart(x))).inf
       ELSE ~Float64Val(MakeFloat(RealPart(x))).inf
            /\ ~Float64Val(MakeFloat(ImagPart(x))).inf
  ELSE IF isString(k) THEN c.kind = "String"
  ELSE IF isBoolean(k) THEN c.kind = "Bool"
  ELSE FALSE

\* representableErr classifying by the target alone
representableErrByTarget(nd, k) ==
  IF isNumber(Kind(nd.typ)) /\ isNumber(k) THEN
    IF isInt(k)
    THEN Err("truncated", <<T(k)>>)
    ELSE Err("overflows", <<T(k)>>)
  ELSE Err("cannotConvert", <<T(k)>>)

\* the diagnostic of a failed representability check of node nd against kind k
representableErr(nd, k) ==
  IF isNumber(Kind(nd.typ)) /\ isNumber(k) THEN
    IF ~isInt(Kind(nd.typ)) /\ isInt(k)
    THEN Err("truncated", <<T(k)>>)
    ELSE Err("overflows", <<T(k)>>)
  ELSE Err("cannotConvert", <<T(k)>>)

representable(nd, k) ==
  IF ~IsValid(nd.rval) THEN Nil
  ELSE IF ~IsConst(nd.rval) THEN Nil
  ELSE IF ~representableConst(nd.rval, k) THEN representableErr(nd, k)
  ELSE Nil

\* the result of convertConst: the value and whether errCantConvert is returned
convertConst(v, k) ==
  IF ~IsValid(v) THEN [v |-> v, err |-> "nil"]
  ELSE IF ~IsConst(v) THEN [v |-> v, err |-> "nil"]
  ELSE
    CASE k = "bool" -> [v |-> Native(k, RZero, RZero, v.b, ""), err |-> "nil"]
      [] k = "string" -> [v |-> Native(k, RZero, RZero, FALSE, v.s), err |-> "nil"]
      [] k \in SignedKinds ->
           [v |-> Native(k, FromTwos(TwosLow(ToInt(v).re, bitlen[k]), TRUE),
                         RZero, FALSE, ""),
            err |-> "nil"]
      [] k \in UnsignedKinds ->
           [v |-> Native(k, FromTwos(TwosLow(ToInt(v).re, bitlen[k]), FALSE),
                         RZero, FALSE, ""),
            err |-> "nil"]
      [] k = "float32" ->
           [v |-> Native(k, Float32Val(ToFloat(v)).val, RZero, FALSE, ""),
            err |-> "nil"]
      [] k = "float64" ->
           [v |-> Native(k, Float64Val(ToFloat(v)).val, RZero, FALSE, ""),
            err |-> "nil"]
      [] k = "complex64" ->
           [v |-> Native(k, Float32Val(MakeFloat(RealPart(v))).val,
                         Float32Val(MakeFloat(ImagPart(v))).val, FALSE, ""),
            err |-> "nil"]
      [] k = "complex128" ->
           [v |-> Native(k, Float64Val(MakeFloat(RealPart(v))).val,
                         Float64Val(MakeFloat(ImagPart(v))).val, FALSE, ""),
            err |-> "nil"]
      [] OTHER -> [v |-> v, err |-> "cantConvert"]

(***************************************************************************)
(* convertUntyped: the node after the call and the error returned.         *)
(***************************************************************************)
Res(e, nd) == [err |-> e, n |-> nd]

\* lines 283-294: representability, narrowing of the payload, new type
\* narrowed without the assignment of line 293
narrowedKeepsType(nd, ityp, convErr, rerr, cc) ==
  IF rerr.err # "nil" THEN Res(rerr, nd)
  ELSE IF cc.err # "nil" THEN Res(convErr, [nd EXCEPT !.rval = cc.v])
  ELSE Res(Nil, [nd EXCEPT !.rval = cc.v])

\* rerr is the result of representable, cc that of convertConst
narrowed(nd, ityp, convErr, rerr, cc) ==
  IF rerr.err # "nil" THEN Res(rerr, nd)
  ELSE IF cc.err # "nil" THEN Res(convErr, [nd EXCEPT !.rval = cc.v])
  ELSE Res(Nil, [typ |-> ityp, rval |-> cc.v])

narrow(nd, ityp, rtyp, convErr) ==
  narrowed(nd, ityp, convErr, representable(nd, rtyp),
           convertConst(nd.rval, rtyp))

\* bothUntyped with the comparison of line 241 reversed
bothUntypedNarrowing(nd, t, convErr) ==
  IF isNumber(Kind(nd.typ)) /\ isNumber(Kind(t)) THEN
    IF KindOrd(Kind(nd.typ)) > KindOrd(Kind(t))
    THEN Res(Nil, [nd EXCEPT !.typ = t])
    ELSE Res(Nil, nd)
  ELSE IF Kind(nd.typ) # Kind(t) THEN Res(convErr, nd)
  ELSE Res(Nil, nd)

\* lines 237-248: both the node and the target are untyped
bothUntyped(nd, t, convErr) ==
  LET nkind == Kind(nd.typ)
      tkind == Kind(t)
  IN IF isNumber(nkind) /\ isNumber(tkind) THEN
       IF KindOrd(nkind) < KindOrd(tkind)
       THEN Res(Nil, [nd EXCEPT !.typ = t])
       ELSE Res(Nil, nd)
     ELSE IF nkind # tkind THEN Res(convErr, nd)
     ELSE Res(Nil, nd)

convertUntyped(nd, t) ==
  IF nd.typ = NoType \/ ~nd.typ.untyped \/ t = NoType THEN Res(Nil, nd)
  ELSE
    LET convErr == Err("cannotConvert", <<nd.typ, t>>)
        ntyp == Kind(nd.typ)
        ttyp == Kind(t)
    IN IF t.untyped THEN bothUntyped(nd, t, convErr)
       ELSE IF isNil(t) /\ isNil(nd.typ) THEN Res(Nil, [nd EXCEPT !.typ = t])
       ELSE IF isNumber(ttyp) \/ isString(ttyp) \/ isBoolean(ttyp)
       THEN narrow(nd, t, ttyp, convErr)
       ELSE IF isInterface(t) THEN
         IF isNil(nd.typ) THEN Res(Nil, nd)
         ELSE IF Cardinality(methods(nd.typ)) > 0 THEN Res(convErr, nd)
         ELSE narrow(nd, defaultType(nd.typ), ntyp, convErr)
       ELSE IF isArray(t) \/ isMap(t) \/ isChan(t) \/ isFunc(t) \/ isPtr(t) THEN
         IF ~isNil(nd.typ) THEN Res(convErr, nd)
         ELSE Res(Nil, nd)
       ELSE Res(convErr, nd)

(***************************************************************************)
(* Operators (action) and the operator predicate tables.                   *)
(***************************************************************************)
ArithActions == {"aAdd", "aSub", "aMul", "aQuo", "aRem"}

BitActions == {"aAnd", "aOr", "aXor", "aAndNot"}

ShiftActions == {"aShl", "aShr"}

LogicActions == {"aLand", "aLor"}

ComparisonActions ==
  {"aEqual", "aNotEqual", "aGreater", "aGreaterEqual", "aLower", "aLowerEqual"}

\* the compound assignment operators, each the successor of its base
\* operator in the enumeration
AssignActions ==
  {"aAddAssign", "aSubAssign", "aMulAssign", "aQuoAssign", "aRemAssign",
   "aAndAssign", "aOrAssign", "aXorAssign", "aAndNotAssign", "aShlAssign",
   "aShrAssign"}

isAssignAction(a) == a \in AssignActions

\* a-- on a compound assignment operator
baseAction(a) ==
  CASE a = "aAddAssign" -> "aAdd"
    [] a = "aSubAssign" -> "aSub"
    [] a = "aMulAssign" -> "aMul"
    [] a = "aQuoAssign" -> "aQuo"
    [] a = "aRemAssign" -> "aRem"
    [] a = "aAndAssign" -> "aAnd"
    [] a = "aOrAssign" -> "aOr"
    [] a = "aXorAssign" -> "aXor"
    [] a = "aAndNotAssign" -> "aAndNot"
    [] a = "aShlAssign" -> "aShl"
    [] a = "aShrAssign" -> "aShr"

isShiftAction(a) == a \in {"aShl", "aShr", "aShlAssign", "aShrAssign"}

isComparisonAction(a) == a \in ComparisonActions

\* the operators binaryOpPredicates has an entry for
binaryOps == ArithActions \cup BitActions \cup LogicActions

binaryOpPredicates(a, k) ==
  CASE a = "aAdd" -> isNumber(k) \/ isString(k)
    [] a \in {"aSub", "aMul", "aQuo"} -> isNumber(k)
    [] a \in {"aRem", "aAnd", "aOr", "aXor", "aAndNot"} -> isInt(k)
    [] a \in {"aLand", "aLor"} -> isBoolean(k)

\* op with the binary table: the operator a on the backing kind k of node c
op(a, c, k) ==
  IF a \in binaryOps THEN
    IF ~binaryOpPredicates(a, k) THEN Err("opNotDefined", <<c.typ>>) ELSE Nil
  ELSE Err("unknownOp", <<>>)

\* t is assignable to o: identical types, nil and a type that admits nil,
\* or any value to an interface
assignableTo(t, o) ==
  \/ equals(t, o)
  \/ isNil(t) /\ hasNil(o)
  \/ isNil(o) /\ hasNil(t)
  \/ isInterface(o) /\ ~t.untyped

(***************************************************************************)
(* The expression checkers.  Each yields the error returned and the two    *)
(* operand nodes after the call.                                           *)
(***************************************************************************)
Out(e, a0, a1) == [err |-> e, c0 |-> a0, c1 |-> a1]

Panic == Err("panic", <<>>)

\* lines 136-146: the shift count; r1 is the result of convertUntyped(c1, uint)
shiftCount(b0, a1, r1) ==
  IF a1.typ.untyped THEN
    IF r1.err.err # "nil"
    THEN Out(Err("shiftCount", <<r1.n.typ>>), b0, r1.n)
    ELSE Out(Nil, b0, r1.n)
  ELSE IF isInt(Kind(a1.typ)) THEN Out(Nil, b0, a1)
  ELSE Out(Err("shiftCount", <<a1.typ>>), b0, a1)

\* lines 126-134: the shifted operand; v0 is its constant converted by ToInt.
\* The type assertion of line 128 panics when an untyped operand holds no
\* constant.Value
shiftOperand(a0, a1, v0, b0) ==
  IF a0.typ.untyped /\ ~IsConst(a0.rval) THEN Out(Panic, a0, a1)
  ELSE IF ~((a0.typ.untyped /\ v0.kind = "Int") \/ isInt(Kind(a0.typ)))
  THEN Out(Err("shiftOfType", <<b0.typ>>), b0, a1)
  ELSE shiftCount(b0, a1, convertUntyped(a1, T("uint")))

shift(nn, a0, a1) ==
  shiftOperand(a0, a1, ToInt(a0.rval),
               IF a0.typ.untyped THEN [a0 EXCEPT !.rval = ToInt(a0.rval)] ELSE a0)

comparison(nn, a0, a1) ==
  LET ok ==
        IF nn.action \in {"aEqual", "aNotEqual"}
        THEN \/ comparable(a0.typ) /\ comparable(a1.typ)
             \/ isNil(a0.typ) /\ hasNil(a1.typ)
             \/ isNil(a1.typ) /\ hasNil(a0.typ)
        ELSE IF nn.action \in {"aLower", "aLowerEqual", "aGreater", "aGreaterEqual"}
        THEN ordered(a0.typ) /\ ordered(a1.typ)
        ELSE FALSE
      named == IF isNil(a0.typ) THEN a1.typ ELSE a0.typ
  IN IF ~assignableTo(a0.typ, a1.typ) /\ ~assignableTo(a1.typ, a0.typ)
     THEN Out(Err("mismatched", <<a0.typ, a1.typ>>), a0, a1)
     ELSE IF ~ok THEN Out(Err("opNotDefined", <<named>>), a0, a1)
     ELSE Out(Nil, a0, a1)

\* lines 202-203: best-effort coercion of each operand toward the other
coerceSecond(b0, a1) == <<b0, convertUntyped(a1, b0.typ).n>>

coerceOperands(a0, a1) == coerceSecond(convertUntyped(a0, a1.typ).n, a1)

\* lines 218-223: the division by zero check, on the operator of the node;
\* the type assertion on the divisor's payload panics when it holds no
\* constant.Value
divisionCheck(nn, b0, b1) ==
  IF /\ nn.action \in {"aQuo", "aRem"}
     /\ b0.typ.untyped \/ isInt(Kind(b0.typ))
     /\ b1.typ.untyped
  THEN IF ~IsConst(b1.rval) THEN "panic"
       ELSE IF Sign(b1.rval) = 0 THEN "zero"
       ELSE "none"
  ELSE "none"

\* lines 209-224, on the coerced operands b0 and b1 and the base operator a
arithmetic(nn, a, b0, b1, operr, div) ==
  IF ~equals(b0.typ, b1.typ)
  THEN Out(Err("mismatched", <<b0.typ, b1.typ>>), b0, b1)
  ELSE IF operr.err # "nil" THEN Out(operr, b0, b1)
  ELSE IF div = "panic" THEN Out(Panic, b0, b1)
  ELSE IF div = "zero" THEN Out(Err("divByZero", <<>>), b0, b1)
  ELSE Out(Nil, b0, b1)

\* lines 205-224, on the coerced operands b
coerced(nn, a, b) ==
  IF isComparisonAction(a) THEN comparison(nn, b[1], b[2])
  ELSE arithmetic(nn, a, b[1], b[2], op(a, b[1], Kind(b[1].typ)),
                  divisionCheck(nn, b[1], b[2]))

\* lines 198-224, with the operator a normalized to its base form
dispatch(nn, a, a0, a1) ==
  IF isShiftAction(a) THEN shift(nn, a0, a1)
  ELSE coerced(nn, a, coerceOperands(a0, a1))

binaryExpr(nn, a0, a1) ==
  dispatch(nn, IF isAssignAction(nn.action) THEN baseAction(nn.action)
               ELSE nn.action, a0, a1)

\* lines 36-55: plain assignment of src to the destination d1 whose type was
\* defaulted; r is the result of the coercion of src
assigned(d1, r) ==
  IF r.err.err # "nil" THEN Out(r.err, d1, r.n)
  ELSE IF ~assignableTo(r.n.typ, d1.typ)
  THEN Out(Err("cannotUse", <<r.n.typ, d1.typ>>), d1, r.n)
  ELSE Out(Nil, d1, r.n)

assign(d1, src) ==
  assigned(d1,
           IF src.typ.untyped
           THEN convertUntyped(src, IF isNil(d1.typ) \/ isInterface(d1.typ)
                                    THEN defaultType(src.typ) ELSE d1.typ)
           ELSE Res(Nil, src))

\* assignExpr rejecting only when both sides are multi-valued
assignExprBothMulti(nn, dest, src) ==
  IF nn.action = "aAssign" THEN
    assign(IF nn.anc # "constDecl"
           THEN [dest EXCEPT !.typ = defaultType(dest.typ)] ELSE dest, src)
  ELSE IF nn.nleft > 1 /\ nn.nright > 1
  THEN Out(Err("singleValued", <<>>), dest, src)
  ELSE binaryExpr(nn, dest, src)

assignExpr(nn, dest, src) ==
  IF nn.action = "aAssign" THEN
    assign(IF nn.anc # "constDecl"
           THEN [dest EXCEPT !.typ = defaultType(dest.typ)] ELSE dest, src)
  ELSE IF nn.nleft > 1 \/ nn.nright > 1
  THEN Out(Err("singleValued", <<>>), dest, src)
  ELSE binaryExpr(nn, dest, src)

(***************************************************************************)
(* Inputs: constants, types and nodes.                                     *)
(***************************************************************************)
\* the widths at whose boundaries integers are drawn
BoundaryExps == {7, 8, 15, 16, 31, 32, 63, 64}

IntValues ==
  {Real(s, AddSmall(Pow2(k), d), 0) :
     s \in BOOLEAN, k \in BoundaryExps, d \in (-BoundaryOffset)..BoundaryOffset}
  \cup {Real(s, FromNat(v), 0) : s \in BOOLEAN, v \in {0, 1, 200}}

\* 0.0, 0.5, 2.0, 3.5, -3.5, 300.0, 2^64, and the float32 and float64
\* overflow thresholds (2^128 - 2^103, 2^1024 - 2^970) with their neighbours
FloatValues ==
  {Real(FALSE, <<>>, 0), Real(FALSE, <<>>, 1), Real(FALSE, FromNat(2), 0),
   Real(FALSE, FromNat(3), 1), Real(TRUE, FromNat(3), 1),
   Real(FALSE, FromNat(300), 0), Real(FALSE, Pow2(64), 0),
   Real(FALSE, Zeros(103) \o Ones(25), 0),
   Real(FALSE, Dec(Zeros(103) \o Ones(25)), 0),
   Real(TRUE, Pow2(128), 0),
   Real(FALSE, Zeros(970) \o Ones(54), 0),
   Real(FALSE, Dec(Zeros(970) \o Ones(54)), 1)}

ComplexValues ==
  {MakeComplex(Real(FALSE, FromNat(1), 0), Real(FALSE, FromNat(1), 0)),
   MakeComplex(Real(FALSE, FromNat(2), 0), RZero),
   MakeComplex(Real(FALSE, FromNat(3), 1), RZero),
   MakeComplex(Real(FALSE, Pow2(128), 0), RZero),
   MakeComplex(RZero, Real(FALSE, Pow2(128), 0))}

Constants ==
  {MakeInt(r) : r \in IntValues} \cup {MakeFloat(r) : r \in FloatValues}
  \cup ComplexValues \cup {MakeBool(TRUE), MakeString("s"), Unknown}

ConcreteCats ==
  SignedKinds \cup UnsignedKinds \cup FloatKinds \cup ComplexKinds
  \cup {"bool", "string", "array", "chan", "func", "interface", "map", "ptr",
        "struct"}

ConcreteTypes == {T(cat) : cat \in ConcreteCats}

UntypedTypes ==
  {U(cat) : cat \in {"bool", "int", "int32", "float64", "complex128",
                     "string", "nil"}}

Node(t, v) == [typ |-> t, rval |-> v]

\* a variable or other non-constant expression of a concrete type
Var(cat) == Node(T(cat), Invalid)

\* the nil identifier: untyped, of the nil type, without a constant payload
NilNode == Node(U("nil"), Invalid)

\* untyped nodes: literals and constant expressions, an untyped float that
\* carries an integer constant (widened by an earlier binary expression), nil,
\* and untyped nodes whose payload is not a constant.Value (lines 298-306)
UntypedNodes ==
  {Node(U("int"), MakeInt(r)) : r \in IntValues}
  \cup {Node(U("int32"), MakeInt(Real(FALSE, FromNat(97), 0)))}
  \cup {Node(U("float64"), MakeFloat(r)) : r \in FloatValues}
  \cup {Node(U("float64"), MakeInt(Real(FALSE, FromNat(1), 0))),
        Node(U("float64"), MakeInt(Real(FALSE, Pow2(64), 0)))}
  \cup {Node(U("complex128"), c) : c \in ComplexValues}
  \cup {Node(U("bool"), MakeBool(TRUE)), Node(U("string"), MakeString("s")),
        NilNode, Node(U("int"), Invalid),
        Node(U("bool"), Native("bool", RZero, RZero, TRUE, ""))}

TypedNodes == {Var(cat) : cat \in ConcreteCats}

NoNode == Node(NoType, Invalid)

\* the operator node when none is involved
NoOp == [action |-> "none", nleft |-> 1, nright |-> 1, anc |-> "none"]

NoRet == Err("none", <<>>)

(***************************************************************************)
(* Specification of the coercion engine: one call of representableConst,   *)
(* representable, convertConst or convertUntyped on drawn arguments.       *)
(* c0 is the node (or carries the constant), typ the target type.          *)
(***************************************************************************)
Init ==
  /\ pc = "start"
  /\ n = NoOp
  /\ c1 = NoNode
  /\ tree = <<>>
  /\ cur = 0
  /\ found = FALSE
  /\ ret = NoRet
  /\ \/ /\ call = "representableConst"
        /\ c0 \in {Node(NoType, c) : c \in Constants}
        /\ typ \in ConcreteTypes
     \/ /\ call \in {"representable", "convertConst"}
        /\ c0 \in UntypedNodes
        /\ typ \in ConcreteTypes
     \/ /\ call = "convertUntyped"
        /\ c0 \in UntypedNodes \cup TypedNodes \cup {NoNode}
        /\ typ \in ConcreteTypes \cup UntypedTypes \cup {T("nil"), NoType}

RepresentableConstCall ==
  /\ pc = "start"
  /\ call = "representableConst"
  /\ ret' = Err(IF representableConst(c0.rval, Kind(typ)) THEN "true" ELSE "false",
                <<>>)
  /\ pc' = "done"
  /\ UNCHANGED <<call, n, c0, c1, typ, tree, cur, found>>

RepresentableCall ==
  /\ pc = "start"
  /\ call = "representable"
  /\ ret' = representable(c0, Kind(typ))
  /\ pc' = "done"
  /\ UNCHANGED <<call, n, c0, c1, typ, tree, cur, found>>

ConvertConstCall ==
  /\ pc = "start"
  /\ call = "convertConst"
  /\ LET cc == convertConst(c0.rval, Kind(typ))
     IN /\ c0' = [c0 EXCEPT !.rval = cc.v]
        /\ ret' = Err(cc.err, <<>>)
  /\ pc' = "done"
  /\ UNCHANGED <<call, n, c1, typ, tree, cur, found>>

ConvertUntypedCall ==
  /\ pc = "start"
  /\ call = "convertUntyped"
  /\ LET r == convertUntyped(c0, typ)
     IN /\ c0' = r.n
        /\ ret' = r.err
  /\ pc' = "done"
  /\ UNCHANGED <<call, n, c1, typ, tree, cur, found>>

Next ==
  \/ RepresentableConstCall
  \/ RepresentableCall
  \/ ConvertConstCall
  \/ ConvertUntypedCall

Spec == Init /\ [][Next]_vars

(***************************************************************************)
(* Specification of the expression checkers: one call of assignExpr,       *)
(* binaryExpr, shift or comparison on an operator node n with operands c0  *)
(* and c1 (n.child[0] and n.child[1]; dest and src of an assignment), or   *)
(* the coercion of two untyped numeric operands toward each other, which   *)
(* may be repeated.                                                        *)
(***************************************************************************)
I(v) == MakeInt(Real(v < 0, FromNat(IF v < 0 THEN -v ELSE v), 0))

UntypedNumericNodes ==
  {Node(U("int"), I(0)), Node(U("int"), I(1)), Node(U("int"), I(200)),
   Node(U("int"), I(-1)), Node(U("int"), MakeInt(Real(FALSE, Pow2(64), 0))),
   Node(U("int32"), I(97)),
   Node(U("float64"), MakeFloat(RZero)),
   Node(U("float64"), MakeFloat(Real(FALSE, FromNat(2), 0))),
   Node(U("float64"), MakeFloat(Real(FALSE, FromNat(3), 1))),
   Node(U("complex128"), MakeComplex(RZero, RZero)),
   Node(U("complex128"),
        MakeComplex(Real(FALSE, FromNat(1), 0), Real(FALSE, FromNat(1), 0)))}

ExprNodes ==
  UntypedNumericNodes
  \cup {Node(U("bool"), MakeBool(TRUE)), Node(U("string"), MakeString("s")),
        NilNode}
  \cup {Var(cat) : cat \in {"int", "int8", "uint", "uint64", "float64",
                            "complex128", "string", "bool", "ptr", "interface",
                            "array", "map", "chan", "func", "struct"}}

OpNode(a, l, r, anc) == [action |-> a, nleft |-> l, nright |-> r, anc |-> anc]

InitExpr ==
  /\ pc = "start"
  /\ typ = NoType
  /\ tree = <<>>
  /\ cur = 0
  /\ found = FALSE
  /\ ret = NoRet
  /\ \/ /\ call = "assignExpr"
        /\ \/ n \in {OpNode("aAssign", 1, 1, anc) : anc \in {"constDecl", "other"}}
           \/ n \in {OpNode(a, l, r, "other") :
                       a \in AssignActions, l \in 1..MaxArity, r \in 1..MaxArity}
        /\ c0 \in ExprNodes
        /\ c1 \in ExprNodes
     \/ /\ call = "binaryExpr"
        /\ n \in {OpNode(a, 1, 1, "other") :
                    a \in ArithActions \cup BitActions \cup ShiftActions
                          \cup LogicActions \cup ComparisonActions \cup {"aRecv"}}
        /\ c0 \in ExprNodes
        /\ c1 \in ExprNodes
     \/ /\ call = "shift"
        /\ n \in {OpNode(a, 1, 1, "other") : a \in ShiftActions}
        /\ c0 \in ExprNodes
        /\ c1 \in ExprNodes
     \/ /\ call = "comparison"
        /\ n \in {OpNode(a, 1, 1, "other") : a \in ComparisonActions}
        /\ c0 \in ExprNodes
        /\ c1 \in ExprNodes
     \/ /\ call = "coerce"
        /\ n \in {OpNode("aAdd", 1, 1, "other")}
        /\ c0 \in UntypedNumericNodes
        /\ c1 \in UntypedNumericNodes

Returns(r) ==
  /\ ret' = r.err
  /\ c0' = r.c0
  /\ c1' = r.c1
  /\ pc' = "done"
  /\ UNCHANGED <<call, n, typ, tree, cur, found>>

AssignExprCall ==
  /\ pc = "start"
  /\ call = "assignExpr"
  /\ Returns(assignExpr(n, c0, c1))

BinaryExprCall ==
  /\ pc = "start"
  /\ call = "binaryExpr"
  /\ Returns(binaryExpr(n, c0, c1))

ShiftCall ==
  /\ pc = "start"
  /\ call = "shift"
  /\ Returns(shift(n, c0, c1))

ComparisonCall ==
  /\ pc = "start"
  /\ call = "comparison"
  /\ Returns(comparison(n, c0, c1))

Coerced2(r0, r1) ==
  /\ c0' = r0.n
  /\ c1' = r1.n
  /\ ret' = IF r0.err.err # "nil" THEN r0.err ELSE r1.err

Coerced(r0) == Coerced2(r0, convertUntyped(c1, r0.n.typ))

\* lines 202-203, run once and then once more on the coerced operands; ret
\* keeps the first error of the two conversions
CoerceOperandsCall ==
  /\ pc \in {"start", "done"}
  /\ call = "coerce"
  /\ Coerced(convertUntyped(c0, c1.typ))
  /\ pc' = IF pc = "start" THEN "done" ELSE "again"
  /\ UNCHANGED <<call, n, typ, tree, cur, found>>

NextExpr ==
  \/ AssignExprCall
  \/ BinaryExprCall
  \/ ShiftCall
  \/ ComparisonCall
  \/ CoerceOperandsCall

SpecExpr == InitExpr /\ [][NextExpr]_vars

(***************************************************************************)
(* Specification of addressExpr: the walk down the operand of a unary      *)
(* address expression, one loop iteration per step.  tree holds the nodes  *)
(* below the address node (tree[1] is n.child[0]), cur is c0.              *)
(***************************************************************************)
\* node kinds with children, and leaves
InnerKinds == {"parenExpr", "selectorExpr", "indexExpr", "starExpr"}

LeafKinds == {"compositeLitExpr", "identExpr", "basicLit"}

BaseTypes == {T("array"), T("map"), T("ptr")}

\* one level of the chain: the node's kind and type, and the kind of the
\* sibling of its successor (the X of a selector X.Sel, the index of X[i])
Levels ==
  {[kind |-> k, typ |-> t, sib |-> "none"] :
     k \in {"parenExpr", "starExpr"}, t \in BaseTypes}
  \cup {[kind |-> k, typ |-> t, sib |-> sb] :
          k \in {"selectorExpr", "indexExpr"}, t \in BaseTypes,
          sb \in {"identExpr", "basicLit"}}

Leaves == {[kind |-> k, typ |-> t, sib |-> "none"] : k \in LeafKinds, t \in BaseTypes}

Chains ==
  UNION {{Append(p, l) : p \in [1..(d - 1) -> Levels], l \in Leaves} :
           d \in 1..MaxDepth}

\* the nodes of a chain of depth D: node i <= D is the i-th of the chain,
\* node D + i the sibling below node i
TreeOf(ch) ==
  LET D == Len(ch)
  IN [i \in 1..(2 * D) |->
        IF i <= D
        THEN [kind |-> ch[i].kind, typ |-> ch[i].typ, rval |-> Invalid,
              child |-> CASE ch[i].kind \in {"parenExpr", "starExpr"} -> <<i + 1>>
                          [] ch[i].kind = "selectorExpr" -> <<D + i, i + 1>>
                          [] ch[i].kind = "indexExpr" -> <<i + 1, D + i>>
                          [] OTHER -> <<>>]
        ELSE [kind |-> IF ch[i - D].sib = "none" THEN "basicLit" ELSE ch[i - D].sib,
              typ |-> T("int"), rval |-> Invalid, child |-> <<>>]]

InitAddr ==
  /\ pc = "start"
  /\ call = "addressExpr"
  /\ n = [action |-> "aAddr", nleft |-> 1, nright |-> 1, anc |-> "other"]
  /\ c0 = NoNode
  /\ c1 = NoNode
  /\ typ = NoType
  /\ tree \in {TreeOf(ch) : ch \in Chains}
  /\ cur = 0
  /\ found = FALSE
  /\ ret = NoRet

\* lines 68-69
AddressExprEnter ==
  /\ pc = "start"
  /\ call = "addressExpr"
  /\ cur' = 1
  /\ found' = FALSE
  /\ pc' = "loop"
  /\ UNCHANGED <<call, n, c0, c1, typ, tree, ret>>

\* addressNext unwrapping a selector to its operand instead of its member
addressNextSelectorX(tr, i) ==
  CASE tr[i].kind = "parenExpr" -> tr[i].child[1]
    [] tr[i].kind = "selectorExpr" -> tr[i].child[1]
    [] tr[i].kind = "indexExpr" ->
         IF isArray(tr[tr[i].child[1]].typ) \/ isMap(tr[tr[i].child[1]].typ)
         THEN tr[i].child[1] ELSE 0
    [] OTHER -> 0

\* the successor of node i in the walk of lines 71-87: 0 when the switch
\* falls out to the error of line 88
addressNext(tr, i) ==
  CASE tr[i].kind = "parenExpr" -> tr[i].child[1]
    [] tr[i].kind = "selectorExpr" -> tr[i].child[2]
    [] tr[i].kind = "indexExpr" ->
         IF isArray(tr[tr[i].child[1]].typ) \/ isMap(tr[tr[i].child[1]].typ)
         THEN tr[i].child[1] ELSE 0
    [] OTHER -> 0

\* lines 70-89: one iteration of the loop
AddressExprLoop ==
  /\ pc = "loop"
  /\ ~found
  /\ IF tree[cur].kind \in {"compositeLitExpr", "identExpr"}
     THEN /\ found' = TRUE
          /\ UNCHANGED <<cur, pc, ret>>
     ELSE IF addressNext(tree, cur) # 0
     THEN /\ cur' = addressNext(tree, cur)
          /\ UNCHANGED <<found, pc, ret>>
     ELSE /\ ret' = Err("cannotAddress", <<tree[cur].typ>>)
          /\ pc' = "done"
          /\ UNCHANGED <<cur, found>>
  /\ UNCHANGED <<call, n, c0, c1, typ, tree>>

\* line 90
AddressExprReturn ==
  /\ pc = "loop"
  /\ found
  /\ ret' = Nil
  /\ pc' = "done"
  /\ UNCHANGED <<call, n, c0, c1, typ, tree, cur, found>>

NextAddr ==
  \/ AddressExprEnter
  \/ AddressExprLoop
  \/ AddressExprReturn

\* the checker runs synchronously to its return: a step that can be taken
\* is taken
SpecAddr == InitAddr /\ [][NextAddr]_vars /\ WF_vars(NextAddr)

(***************************************************************************)
(* Properties.                                                             *)
(***************************************************************************)
\* the range of an integer kind of width N = bitlen[k]: [-2^(N-1), 2^(N-1)-1]
\* when signed, [0, 2^N - 1] when unsigned
InKindRange(r, k) ==
  IF k \in SignedKinds
  THEN /\ IntLeq(Real(TRUE, Pow2(bitlen[k] - 1), 0), r)
       /\ IntLeq(r, Real(FALSE, Ones(bitlen[k] - 1), 0))
  ELSE /\ IntLeq(RZero, r)
       /\ IntLeq(r, Real(FALSE, Ones(bitlen[k]), 0))

\* C1: for an integer constant L and an integer kind of width N,
\* representableConst returns true iff L lies in the kind's range: signed
\* [-2^(N-1), 2^(N-1)-1], unsigned [0, 2^N-1] (so 200 does not fit int8).
C1_IntegerRange ==
  (pc = "done" /\ call = "representableConst" /\ c0.rval.kind = "Int"
   /\ isInt(Kind(typ)))
    => ((ret.err = "true") <=> InKindRange(c0.rval.re, Kind(typ)))

\* the divisor is an untyped constant equal to zero
ZeroDivisor(nd) ==
  /\ nd.typ.untyped
  /\ IsConst(nd.rval)
  /\ nd.rval.kind \in {"Int", "Float", "Complex"}
  /\ Sign(nd.rval) = 0

\* an untyped numeric constant
UntypedConstant(nd) ==
  /\ nd.typ.untyped
  /\ IsConst(nd.rval)
  /\ nd.rval.kind \in {"Int", "Float", "Complex"}

ConcreteInteger(nd) == ~nd.typ.untyped /\ isInt(Kind(nd.typ))

\* C2: for / and %, binaryExpr never succeeds when the divisor is an untyped
\* constant zero and the dividend is an untyped constant or of a concrete
\* integer type, and it returns division by zero for an integer dividend
\* (an untyped integer constant or a concrete integer type).
C2_DivisionByZero ==
  [][(call = "binaryExpr" /\ pc = "start" /\ n.action \in {"aQuo", "aRem"}
      /\ ZeroDivisor(c1) /\ (UntypedConstant(c0) \/ ConcreteInteger(c0)))
       => /\ ret'.err # "nil"
          /\ (ConcreteInteger(c0) \/ c0.typ = U("int")) => ret'.err = "divByZero"]_vars

Names(e, t) == \E i \in 1..Len(e.args) : e.args[i] = t

\* the outcome claimed for the comparison of nil with the operand other
NilComparison(other, e) ==
  IF hasNil(other.typ) THEN e.err = "nil"
  ELSE e.err # "nil" /\ Names(e, other.typ)

\* C3: == and != through binaryExpr, with the untyped nil on either side:
\* success when the other operand's type admits nil, otherwise an error
\* that names the other operand's type.
C3_NilComparison ==
  [][(call = "binaryExpr" /\ pc = "start" /\ n.action \in {"aEqual", "aNotEqual"})
       => /\ (c0 = NilNode /\ ~c1.typ.untyped) => NilComparison(c1, ret')
          /\ (c1 = NilNode /\ ~c0.typ.untyped) => NilComparison(c0, ret')]_vars

\* the order of the untyped numeric kinds: int < rune < float < complex
UntypedRank(t) ==
  CASE t.cat = "int" -> 1
    [] t.cat = "int32" -> 2
    [] t.cat = "float64" -> 3
    [] t.cat = "complex128" -> 4

WiderType(t, o) == IF UntypedRank(t) >= UntypedRank(o) THEN t ELSE o

\* C4: coercing two untyped numeric operands toward each other succeeds,
\* leaves both with the wider of the two kinds, narrows neither, and doing it
\* again changes neither node's type nor its constant value.
C4_CoerceWidens ==
  [][/\ (call = "coerce" /\ pc = "start")
          => /\ ret'.err = "nil"
             /\ c0'.typ = WiderType(c0.typ, c1.typ)
             /\ c1'.typ = WiderType(c0.typ, c1.typ)
             /\ UntypedRank(c0'.typ) >= UntypedRank(c0.typ)
             /\ UntypedRank(c1'.typ) >= UntypedRank(c1.typ)
     /\ (call = "coerce" /\ pc = "done")
          => /\ ret'.err = "nil"
             /\ c0' = c0
             /\ c1' = c1]_vars

\* an int constant widened to complex by a float-free pair, coerced twice
C4_Witness ==
  /\ call = "coerce"
  /\ pc = "again"
  /\ c0.typ = U("complex128")
  /\ c0.rval.kind = "Int"
  /\ c1.rval.kind = "Complex"

\* C5: a compound assignment whose left or right arity exceeds 1 is rejected
\* with the single-valued error and no operand's type or constant changes.
C5_SingleValued ==
  [][(call = "assignExpr" /\ pc = "start" /\ n.action # "aAssign"
      /\ (n.nleft > 1 \/ n.nright > 1))
       => /\ ret'.err = "singleValued"
          /\ c0' = c0
          /\ c1' = c1]_vars

\* a rejected x += 1 with a multi-valued right side: the untyped 1 was not
\* coerced to the type of x
C5_Witness ==
  /\ call = "assignExpr"
  /\ pc = "done"
  /\ ret.err = "singleValued"
  /\ n.nleft = 1
  /\ n.nright > 1
  /\ c0 = Var("int")
  /\ c1.typ = U("int")

\* (a) of C6: an untyped constant that converts exactly to an integer, or a
\* concrete integer type
ShiftOperandOk(nd) ==
  \/ nd.typ.untyped /\ IsConst(nd.rval) /\ ToInt(nd.rval).kind = "Int"
  \/ ConcreteInteger(nd)

\* (b) of C6: an untyped constant with a non-negative integral value
\* representable as uint, or a concrete integer type
ShiftCountOk(nd) ==
  \/ /\ nd.typ.untyped
     /\ IsConst(nd.rval)
     /\ ToInt(nd.rval).kind = "Int"
     /\ InKindRange(ToInt(nd.rval).re, "uint")
  \/ ConcreteInteger(nd)

\* C6: shift succeeds iff (a) and (b); a failure of (a) is the shift of type
\* error, a failure of (b) the shift count error; an untyped integer shifted
\* by an untyped non-negative integer succeeds and types the count as uint.
C6_Shift ==
  [][(call = "shift" /\ pc = "start")
       => /\ (ret'.err = "nil") <=> (ShiftOperandOk(c0) /\ ShiftCountOk(c1))
          /\ ~ShiftOperandOk(c0) => ret'.err = "shiftOfType"
          /\ (ShiftOperandOk(c0) /\ ~ShiftCountOk(c1)) => ret'.err = "shiftCount"
          /\ (c0.typ = U("int") /\ c1.typ = U("int") /\ ShiftCountOk(c1))
               => c1'.typ = T("uint")]_vars

RECURSIVE Unwrapped(_, _)
\* the node reached from node i by unwrapping parentheses, selectors (to the
\* member) and index expressions over an array or a map (to the base)
Unwrapped(tr, i) ==
  IF tr[i].kind = "parenExpr" THEN Unwrapped(tr, tr[i].child[1])
  ELSE IF tr[i].kind = "selectorExpr" THEN Unwrapped(tr, tr[i].child[2])
  ELSE IF tr[i].kind = "indexExpr" /\ tr[tr[i].child[1]].typ.cat \in {"array", "map"}
  THEN Unwrapped(tr, tr[i].child[1])
  ELSE i

\* C7: addressExpr terminates; it succeeds iff the unwrapped operand is a
\* composite literal or an identifier and otherwise returns the cannot take
\* address error; no node's type or constant value changes.
C7_AddressExpr ==
  /\ [](pc = "done"
          => /\ (ret.err = "nil")
                  <=> tree[Unwrapped(tree, 1)].kind \in {"compositeLitExpr", "identExpr"}
             /\ ret.err \in {"nil", "cannotAddress"})
  /\ [][tree' = tree]_vars
  /\ <>(pc = "done")

\* &(a[i].f): a successful walk through an index expression and a selector
C7_Witness ==
  /\ pc = "done"
  /\ ret.err = "nil"
  /\ tree[1].kind = "indexExpr"
  /\ tree[2].kind = "selectorExpr"
  /\ cur = 3

\* a successful convertUntyped of an untyped node toward a concrete target
ConvertsUntyped ==
  /\ call = "convertUntyped"
  /\ pc = "start"
  /\ c0.typ.untyped
  /\ typ # NoType
  /\ ~typ.untyped
  /\ ret'.err = "nil"

\* C8 as stated: after a successful convertUntyped of an untyped node toward
\* a concrete target the node is no longer untyped and its payload is no
\* longer an untyped constant.
C8_ClearsUntyped ==
  [][ConvertsUntyped => (~c0'.typ.untyped /\ c0'.rval.tag # "const")]_vars

NilToNilable ==
  /\ isNil(c0.typ)
  /\ typ.cat \in {"interface", "array", "map", "chan", "func", "ptr"}

\* C8 as amended: the same, except that the untyped nil converted toward an
\* interface, array, map, channel, function or pointer type succeeds and is
\* left unchanged, still untyped.
C8_ClearsUntypedButNil ==
  [][ConvertsUntyped
       => IF NilToNilable THEN c0' = c0
          ELSE ~c0'.typ.untyped /\ c0'.rval.tag # "const"]_vars

\* an untyped constant narrowed to a native int8
C8_Witness ==
  /\ call = "convertUntyped"
  /\ pc = "done"
  /\ ret.err = "nil"
  /\ typ = T("int8")
  /\ c0.typ = T("int8")
  /\ c0.rval.tag = "native"
  /\ c0.rval.kind = "int8"

\* the outcome of assignExpr equals the outcome b of binaryExpr
SameOutcome(b) ==
  /\ ret'.err = b.err.err
  /\ c0' = b.c0
  /\ c1' = b.c1

\* C9: a single-valued compound assignment op= gives the same outcome as the
\* base binary operator op on the same operands: the same kind of error or
\* success, and the same operand types and constants.
C9_CompoundAsBase ==
  [][(call = "assignExpr" /\ pc = "start" /\ isAssignAction(n.action)
      /\ n.nleft = 1 /\ n.nright = 1)
       => SameOutcome(binaryExpr([n EXCEPT !.action = baseAction(n.action)],
                                 c0, c1))]_vars

ReprFailed == pc = "done" /\ call = "representable" /\ ret.err # "nil"

NumericConstant(c) == c.kind \in {"Int", "Float", "Complex"}

\* C10 as stated: a failed check of a numeric constant against a numeric
\* target is truncated exactly when the value is non-integral and the target
\* an integer kind, overflows otherwise; cannot convert when the constant or
\* the target is not numeric.
C10_ByValue ==
  ReprFailed
    => ret.err =
         IF NumericConstant(c0.rval) /\ isNumber(Kind(typ))
         THEN IF ToInt(c0.rval).kind # "Int" /\ isInt(Kind(typ))
              THEN "truncated" ELSE "overflows"
         ELSE "cannotConvert"

\* the node has an untyped float or complex type
FloatOrComplexTyped(nd) == Kind(nd.typ) \in FloatKinds \cup ComplexKinds

\* C10 as amended: truncated exactly when the constant's untyped type is
\* float or complex, whatever its value, and the target an integer kind;
\* overflows for every other failure of a numeric constant against a numeric
\* target; cannot convert when the constant's type or the target is not
\* numeric.  The float constant 3.5 against an integer kind is truncated.
C10_ByType ==
  /\ ReprFailed
       => ret.err =
            IF isNumber(Kind(c0.typ)) /\ isNumber(Kind(typ))
            THEN IF FloatOrComplexTyped(c0) /\ isInt(Kind(typ))
                 THEN "truncated" ELSE "overflows"
            ELSE "cannotConvert"
  /\ (pc = "done" /\ call = "representable" /\ isInt(Kind(typ))
      /\ c0 = Node(U("float64"), MakeFloat(Real(FALSE, FromNat(3), 1))))
       => ret.err = "truncated"

\* the integral float constant 2^64 against int32: truncated
C10_Witness ==
  /\ ReprFailed
  /\ ret.err = "truncated"
  /\ typ = T("int32")
  /\ c0.rval = MakeFloat(Real(FALSE, Pow2(64), 0))

====
